---------------------------- MODULE Spec2Model ----------------------------
(***************************************************************************)
(* A model of the stateful parts of PyDatAnalysis:                         *)
(*   - DatHandler.get_dat            (src/DatObject/Make_Dat.py)           *)
(*   - run_multithreaded / run_multiprocessed and MyLRU (src/core_util.py) *)
(*   - SquareEntropy.get_Inputs / get_ProcessParams / get_Outputs          *)
(*                                   (src/DatObject/Attributes)            *)
(* Every part has its own specification; the variables of the other parts  *)
(* stay at their initial value.                                            *)
(***************************************************************************)
EXTENDS Integers, Sequences, FiniteSets, TLC

VARIABLES
    open_dats,   \* DatHandler.open_dats: full_id -> DatHDF instance
    hdf_files,   \* full ids whose DatHDF file exists on disk (os.path.isfile(path))
    exp_files,   \* full ids whose experiment data file exists on disk
    nextInst,    \* identity of the next DatHDF instance that gets constructed
    opens,       \* history: full_id -> number of times its HDF was opened or built
    given,       \* history: full_id -> instances returned since it was last overwritten
    hret,        \* outcome of the last sequential get_dat call
    tpc,         \* thread -> position inside get_dat
    tid,         \* thread -> full_id the thread is working on
    ttmp,        \* thread -> DatHDF instance it has constructed and not yet stored
    tret,        \* thread -> instance returned by its last finished get_dat
    datnums,     \* run_multithreaded: the datnums handed to the pool, in order
    func,        \* run_multithreaded: the function, datnum -> its outcome
    futs,        \* the pool's futures, one per datnum, in submission order
    collected,   \* the results the caller's list() has taken so far
    ppc,         \* position of the caller of run_multithreaded
    hdfInputs,   \* HDF group 'Square Entropy/Inputs': name -> saved Input
    hdfPP,       \* HDF group 'Square Entropy/ProcessParams': name -> saved ProcessParams
    hdfOutputs,  \* HDF group 'Square Entropy/Outputs': name -> saved Output
    hdfFits,     \* names under which transition fits are saved in the HDF
    _Outputs,    \* SquareEntropy._Outputs: name -> Output held in memory
    seRet,       \* outcome of the last SquareEntropy call
    cache,       \* MyLRU's OrderedDict of get_data: entries [key, val], oldest first
    recency,     \* history: the cached keys, least recently accessed first
    hdfData,     \* the 'Data' group of each attribute: <<attribute, key>> -> data
    lruRet,      \* the last cache operation: who called it, with what, and its outcome
    sweepCache,  \* the lru_cache of ExpConfigGroupDatAttribute.get_sweeplogs (one instance)
    hdfSubs,     \* 'sweeplog_substitutions' in the HDF group 'Experiment Config'
    hdfGroup,    \* class of DatAttribute -> its HDF group (None while it does not exist)
    constructed, \* class of DatAttribute -> whether a constructor of it has returned
    now,         \* the clock CU.time_now() reads
    initRet,     \* outcome of the last constructor call or 'initialized' assignment
    fnArg,       \* the argument a function under study is called with
    fnRet,       \* what that call gave (None before the call)
    fitGroups,   \* FitInfo class -> name -> the HDF group saved under it (None: no group)
    lastSaved,   \* history: FitInfo class -> name -> the FitInfo last written under it
    fitRet,      \* outcome of the last save_to_hdf / from_hdf
    groupAttrs,  \* HDF group -> attribute name -> value, as far as stored
    private,     \* the '_<attr_name>' fields of a DatAttribute: name -> cached value
    propRet,     \* outcome of the last property_prop / property_set / set_group_attr
    cfg,         \* src.config: ddir, pickledata, plotdir, dfdir
    Dirs,        \* the class attributes of tests.helpers.Dirs
    wpc,         \* where a call of a function wrapped by change_to_test_dir is
    cfgBefore    \* history: cfg when that call began

handlerVars == <<open_dats, hdf_files, exp_files, nextInst, opens, given, hret>>
threadVars  == <<tpc, tid, ttmp, tret>>
poolVars    == <<datnums, func, futs, collected, ppc>>
seVars      == <<hdfInputs, hdfPP, hdfOutputs, hdfFits, _Outputs, seRet>>
lruVars     == <<cache, recency, hdfData, lruRet>>
expVars     == <<sweepCache, hdfSubs>>
initVars    == <<hdfGroup, constructed, now, initRet>>
fnVars      == <<fnArg, fnRet>>
fitVars     == <<fitGroups, lastSaved, fitRet>>
propVars    == <<groupAttrs, private, propRet>>
dirVars     == <<cfg, Dirs, wpc, cfgBefore>>
vars == <<handlerVars, threadVars, poolVars, seVars, lruVars, expVars, initVars, fnVars,
          fitVars, propVars, dirVars>>

\* the variables outside DatHandler and its threads
restH == <<poolVars, seVars, lruVars, expVars, initVars, fnVars, fitVars, propVars, dirVars>>
\* the variables outside the pool
restP == <<handlerVars, threadVars, seVars, lruVars, expVars, initVars, fnVars, fitVars, propVars, dirVars>>
\* the variables outside SquareEntropy
restS == <<handlerVars, threadVars, poolVars, lruVars, expVars, initVars, fnVars, fitVars, propVars, dirVars>>
\* the variables outside the get_data cache
restL == <<handlerVars, threadVars, poolVars, seVars, expVars, initVars, fnVars, fitVars, propVars, dirVars>>
\* the variables outside ExpConfig
restE == <<handlerVars, threadVars, poolVars, seVars, initVars, fnVars, fitVars, propVars, dirVars>>
\* the variables outside the construction of DatAttributes
restI == <<handlerVars, threadVars, poolVars, seVars, lruVars, expVars, fnVars, fitVars, propVars, dirVars>>
\* the variables outside a function call
restF == <<handlerVars, threadVars, poolVars, seVars, lruVars, expVars, initVars, fitVars, propVars, dirVars>>
\* the variables outside FitInfo
restFit == <<handlerVars, threadVars, poolVars, seVars, lruVars, expVars, initVars, fnVars, propVars, dirVars>>
\* the variables outside the property helpers
restProp == <<handlerVars, threadVars, poolVars, seVars, lruVars, expVars, initVars, fnVars, fitVars, dirVars>>
\* the variables outside the test helpers
restD == <<handlerVars, threadVars, poolVars, seVars, lruVars, expVars, initVars, fnVars, fitVars, propVars>>

\* Python's None and a present value, so that None never equals a value.
None == <<>>
Some(v) == <<v>>

(***************************************************************************)
(* Bounds                                                                  *)
(***************************************************************************)
MaxInst == 4        \* DatHDF instances constructed in one behaviour
NumThreads == 2     \* pool threads running get_dat concurrently

DirNames == {"expA", "expB"}        \* exp2hdf.ExpConfig.dir_name
Datnums  == {1, 2}
Datnames == {"base"}
Threads  == 1..NumThreads

(***************************************************************************)
(* DatHandler                                                              *)
(***************************************************************************)
\* get_dat_id(datnum, datname) of src.DatObject.DatHDF: the name of one dat.
get_dat_id(datnum, datname) == <<datnum, datname>>

\* full_id = f'{exp2hdf.ExpConfig.dir_name}:{get_dat_id(datnum, datname)}'
full_id(dir_name, datnum, datname) == <<dir_name, get_dat_id(datnum, datname)>>

FullIds == {full_id(d, n, m) : d \in DirNames, n \in Datnums, m \in Datnames}

\* del cls.open_dats[full_id]
DictDel(d, k) == [x \in (DOMAIN d) \ {k} |-> d[x]]

\* cls.open_dats[full_id] = value
DictSet(d, k, v) == [x \in (DOMAIN d) \cup {k} |-> IF x = k THEN v ELSE d[x]]

\* line 51 as a bug would have it: always open
NeedsOpen_Always(open, id) == TRUE

\* if full_id not in cls.open_dats:  # Need to open or create DatHDF
NeedsOpen(open, id) == id \notin DOMAIN open

\* history bookkeeping: one more open/build of id
CountOpen(id) == [opens EXCEPT ![id] = @ + 1]

\* get_dat, lines 46-49: overwrite deletes the file and forgets the open dat.
AfterOverwriteFiles(id, overwrite) == IF overwrite THEN hdf_files \ {id} ELSE hdf_files
AfterOverwriteOpen(id, overwrite) ==
    IF overwrite /\ id \in DOMAIN open_dats THEN DictDel(open_dats, id) ELSE open_dats

\* get_dat returns the dat that is already open (lines 51, 58).
GetDatOpen(id, overwrite) ==
    /\ ~overwrite
    /\ ~NeedsOpen(open_dats, id)
    /\ hret' = [id |-> id, exc |-> "none", dat |-> open_dats[id], opened |-> FALSE]
    /\ given' = [given EXCEPT ![id] = @ \cup {open_dats[id]}]
    /\ UNCHANGED <<open_dats, hdf_files, exp_files, nextInst, opens>>

\* get_dat opens the existing HDF file (lines 51-53, 58).
GetDatLoad(id, overwrite) ==
    LET files1 == AfterOverwriteFiles(id, overwrite)
        open1  == AfterOverwriteOpen(id, overwrite)
    IN  /\ NeedsOpen(open1, id)
        /\ id \in files1
        /\ nextInst < MaxInst
        /\ open_dats' = DictSet(open1, id, nextInst)
        /\ nextInst' = nextInst + 1
        /\ opens' = CountOpen(id)
        /\ hret' = [id |-> id, exc |-> "none", dat |-> nextInst, opened |-> TRUE]
        /\ given' = [given EXCEPT ![id] = (IF overwrite THEN {} ELSE @) \cup {nextInst}]
        /\ UNCHANGED <<hdf_files, exp_files>>

\* get_dat builds the HDF from the experiment data (lines 51, 54-58); the data is
\* there or synchronize_data fetches it (_check_exp_data_exists, lines 92-101).
GetDatBuild(id, overwrite, synced) ==
    LET files1 == AfterOverwriteFiles(id, overwrite)
        open1  == AfterOverwriteOpen(id, overwrite)
    IN  /\ NeedsOpen(open1, id)
        /\ id \notin files1
        /\ id \in exp_files \/ synced
        /\ nextInst < MaxInst
        /\ exp_files' = exp_files \cup {id}
        /\ hdf_files' = files1 \cup {id}
        /\ open_dats' = DictSet(open1, id, nextInst)
        /\ nextInst' = nextInst + 1
        /\ opens' = CountOpen(id)
        /\ hret' = [id |-> id, exc |-> "none", dat |-> nextInst, opened |-> TRUE]
        /\ given' = [given EXCEPT ![id] = (IF overwrite THEN {} ELSE @) \cup {nextInst}]

\* get_dat raises FileNotFoundError: no HDF and no experiment data (line 102).
GetDatMissing(id, overwrite) ==
    LET files1 == AfterOverwriteFiles(id, overwrite)
        open1  == AfterOverwriteOpen(id, overwrite)
    IN  /\ NeedsOpen(open1, id)
        /\ id \notin files1
        /\ id \notin exp_files
        /\ open_dats' = open1
        /\ hdf_files' = files1
        /\ hret' = [id |-> id, exc |-> "FileNotFoundError", dat |-> 0, opened |-> FALSE]
        /\ given' = [given EXCEPT ![id] = IF overwrite THEN {} ELSE @]
        /\ UNCHANGED <<exp_files, nextInst, opens>>

HandlerInit ==
    /\ open_dats = <<>>
    /\ hdf_files \in SUBSET FullIds
    /\ exp_files \in SUBSET FullIds
    /\ nextInst = 1
    /\ opens = [id \in FullIds |-> 0]
    /\ given = [id \in FullIds |-> {}]
    /\ hret = [id |-> <<>>, exc |-> "none", dat |-> 0, opened |-> FALSE]

ThreadsIdle ==
    /\ tpc = [t \in Threads |-> "idle"]
    /\ tid = [t \in Threads |-> <<>>]
    /\ ttmp = [t \in Threads |-> 0]
    /\ tret = [t \in Threads |-> 0]

PoolIdle ==
    /\ datnums = <<>>
    /\ func = <<>>
    /\ futs = <<>>
    /\ collected = <<>>
    /\ ppc = "off"

SeIdle ==
    /\ hdfInputs = <<>>
    /\ hdfPP = <<>>
    /\ hdfOutputs = <<>>
    /\ hdfFits = {}
    /\ _Outputs = <<>>
    /\ seRet = [op |-> "none", call |-> None, exc |-> "none", val |-> None,
                computed |-> FALSE, fits |-> FALSE]

Attrs == {"attrA", "attrB"}       \* FittingAttribute instances
DataKeys == {"x", "y"}            \* names of data in an attribute's Data group
DataVals == {1, 2}

LruIdle ==
    /\ cache = <<>>
    /\ recency = <<>>
    /\ hdfData = [p \in Attrs \X DataKeys |-> 1]
    /\ lruRet = [op |-> "none", key |-> None, val |-> 0, called |-> FALSE, evicted |-> None,
                 self |-> None, arg |-> None, style |-> "none", exc |-> "none"]
    /\ sweepCache = None
    /\ hdfSubs = 1

\* the classes whose _initialize_minimum the source defines
Kinds == {"DatAttribute", "ExpConfigGroupDatAttribute", "FittingAttribute"}

\* a new HDF file: no attribute has its group yet
AttrsIdle ==
    /\ hdfGroup = [k \in Kinds |-> None]
    /\ constructed = [k \in Kinds |-> FALSE]
    /\ now = 0
    /\ initRet = [op |-> "none", kind |-> "none", exc |-> "none"]

\* no function is being called
FnIdle == fnArg = None /\ fnRet = None

\* the two FitInfo classes: DatAttribute.py and AnalysisTools/fitting.py
FitClasses == {"DatAttribute.FitInfo", "fitting.FitInfo"}
FitNames == {"fitA", "fitB"}
FitSaveNames == {"fitA"}          \* nothing is ever saved under "fitB"

\* no fit is saved
FitIdle ==
    /\ fitGroups = [c \in FitClasses |-> [n \in FitNames |-> None]]
    /\ lastSaved = [c \in FitClasses |-> [n \in FitNames |-> None]]
    /\ fitRet = [op |-> "none", cls |-> "none", name |-> "none", exc |-> "none", fi |-> None]

\* the group of the attribute and another group of the HDF
PropGroups == {"self.group_name", "Other"}
PropNames == {"a", "b"}
PropVals == {0, 1, 2}
OptGroups == {None, Some("Other")}

\* nothing stored, nothing cached
PropIdle ==
    /\ groupAttrs = [g \in PropGroups |-> <<>>]
    /\ private = <<>>
    /\ propRet = [op |-> "none", name |-> "none", group |-> "none", exc |-> "none", val |-> None]

DirNamesCfg == {"ddir", "pickledata", "plotdir", "dfdir"}
\* a directory is the one config.py names, one set later on, or the test fixture
DirVals == {"config", "other", "fixtures"}

\* tests.helpers is imported: the class body of Dirs copies the four values of cfg
DirsIdle ==
    /\ cfg = [d \in DirNamesCfg |-> "config"]
    /\ Dirs = cfg
    /\ wpc = "idle"
    /\ cfgBefore = cfg

Init == HandlerInit /\ ThreadsIdle /\ PoolIdle /\ SeIdle /\ LruIdle /\ AttrsIdle /\ FnIdle /\ FitIdle /\ PropIdle
        /\ DirsIdle

GetDatOpenStep == \E id \in FullIds, ow \in BOOLEAN :
    GetDatOpen(id, ow) /\ UNCHANGED <<threadVars, restH>>
GetDatLoadStep == \E id \in FullIds, ow \in BOOLEAN :
    GetDatLoad(id, ow) /\ UNCHANGED <<threadVars, restH>>
GetDatBuildStep == \E id \in FullIds, ow \in BOOLEAN, synced \in BOOLEAN :
    GetDatBuild(id, ow, synced) /\ UNCHANGED <<threadVars, restH>>
GetDatMissingStep == \E id \in FullIds, ow \in BOOLEAN :
    GetDatMissing(id, ow) /\ UNCHANGED <<threadVars, restH>>

Next == GetDatOpenStep \/ GetDatLoadStep \/ GetDatBuildStep \/ GetDatMissingStep

Spec == Init /\ [][Next]_vars

\* C1: in a sequential run, every get_dat call for one dat id since that id was last
\* overwritten returned the same DatHDF instance, and it is the one open_dats holds.
C1_SameInstance ==
    \A id \in FullIds :
        /\ Cardinality(given[id]) <= 1
        /\ given[id] # {} => (id \in DOMAIN open_dats /\ given[id] = {open_dats[id]})

\* a second call found the dat open and returned it
C1_Witness ==
    /\ hret.exc = "none"
    /\ ~hret.opened
    /\ hret.id \in FullIds
    /\ opens[hret.id] = 1
    /\ given[hret.id] = {hret.dat}

(***************************************************************************)
(* get_dat called from several pool threads (run_multithreaded(get_dat,    *)
(* datnums)), overwrite=False.  One step per source line that reads or     *)
(* writes the shared open_dats or the disk; nothing in get_dat holds a     *)
(* lock around lines 51-58.                                                *)
(***************************************************************************)
\* the dats the pool threads are asked for
ThreadIds == {full_id("expA", n, "base") : n \in Datnums}

SetPc(t, pc) == tpc' = [tpc EXCEPT ![t] = pc]

\* lines 41-45: a pool thread takes the next datnum and computes full_id and path
TEnter(t, id) ==
    /\ tpc[t] \in {"idle", "done", "raised"}
    /\ tid' = [tid EXCEPT ![t] = id]
    /\ SetPc(t, "check")
    /\ UNCHANGED <<handlerVars, ttmp, tret, restH>>

\* line 51: if full_id not in cls.open_dats
TCheck(t) ==
    /\ tpc[t] = "check"
    /\ SetPc(t, IF NeedsOpen(open_dats, tid[t]) THEN "isfile" ELSE "ret")
    /\ UNCHANGED <<handlerVars, tid, ttmp, tret, restH>>

\* line 52: if os.path.isfile(path)
TIsFile(t) ==
    /\ tpc[t] = "isfile"
    /\ SetPc(t, IF tid[t] \in hdf_files THEN "open" ELSE "check_exp")
    /\ UNCHANGED <<handlerVars, tid, ttmp, tret, restH>>

\* line 53, right-hand side: cls._open_hdf(path)
TOpenHdf(t) ==
    /\ tpc[t] = "open"
    /\ nextInst < MaxInst
    /\ ttmp' = [ttmp EXCEPT ![t] = nextInst]
    /\ nextInst' = nextInst + 1
    /\ opens' = CountOpen(tid[t])
    /\ SetPc(t, "store")
    /\ UNCHANGED <<open_dats, hdf_files, exp_files, given, hret, tid, tret, restH>>

\* line 55: _check_exp_data_exists (lines 92-102); synchronize_data runs under
\* sync_lock and may or may not bring the experiment file.
TCheckExp(t, synced) ==
    /\ tpc[t] = "check_exp"
    /\ IF tid[t] \in exp_files \/ synced
         THEN /\ exp_files' = exp_files \cup {tid[t]}
              /\ SetPc(t, "build")
         ELSE /\ exp_files' = exp_files
              /\ SetPc(t, "raised")
    /\ UNCHANGED <<open_dats, hdf_files, nextInst, opens, given, hret, tid, ttmp, tret, restH>>

\* lines 56-57, right-hand side: DatHDFBuilder(exp2hdf, init_level).build_dat()
TBuild(t) ==
    /\ tpc[t] = "build"
    /\ nextInst < MaxInst
    /\ hdf_files' = hdf_files \cup {tid[t]}
    /\ ttmp' = [ttmp EXCEPT ![t] = nextInst]
    /\ nextInst' = nextInst + 1
    /\ opens' = CountOpen(tid[t])
    /\ SetPc(t, "store")
    /\ UNCHANGED <<open_dats, exp_files, given, hret, tid, tret, restH>>

\* lines 53 / 57, the assignment: cls.open_dats[full_id] = <the new DatHDF>
TStore(t) ==
    /\ tpc[t] = "store"
    /\ open_dats' = DictSet(open_dats, tid[t], ttmp[t])
    /\ SetPc(t, "ret")
    /\ UNCHANGED <<hdf_files, exp_files, nextInst, opens, given, hret, tid, ttmp, tret, restH>>

\* line 58: return cls.open_dats[full_id]
TReturn(t) ==
    /\ tpc[t] = "ret"
    /\ tret' = [tret EXCEPT ![t] = open_dats[tid[t]]]
    /\ given' = [given EXCEPT ![tid[t]] = @ \cup {open_dats[tid[t]]}]
    /\ SetPc(t, "done")
    /\ UNCHANGED <<open_dats, hdf_files, exp_files, nextInst, opens, hret, tid, ttmp, restH>>

TEnterStep == \E t \in Threads, id \in ThreadIds : TEnter(t, id)
TCheckStep == \E t \in Threads : TCheck(t)
TIsFileStep == \E t \in Threads : TIsFile(t)
TOpenHdfStep == \E t \in Threads : TOpenHdf(t)
TCheckExpStep == \E t \in Threads, synced \in BOOLEAN : TCheckExp(t, synced)
TBuildStep == \E t \in Threads : TBuild(t)
TStoreStep == \E t \in Threads : TStore(t)
TReturnStep == \E t \in Threads : TReturn(t)

NextThreads ==
    \/ TEnterStep \/ TCheckStep \/ TIsFileStep \/ TOpenHdfStep
    \/ TCheckExpStep \/ TBuildStep \/ TStoreStep \/ TReturnStep

InitThreads ==
    /\ HandlerInit
    /\ hdf_files \subseteq ThreadIds
    /\ exp_files \subseteq ThreadIds
    /\ ThreadsIdle /\ PoolIdle /\ SeIdle /\ LruIdle /\ AttrsIdle /\ FnIdle /\ FitIdle /\ PropIdle
        /\ DirsIdle

SpecThreads == InitThreads /\ [][NextThreads]_vars

\* C2: with concurrent get_dat calls (overwrite=False) the HDF of one dat id is opened
\* or built at most once and every caller receives the same DatHDF instance.
C2_OpenedOnce ==
    \A id \in FullIds : opens[id] <= 1 /\ Cardinality(given[id]) <= 1

(***************************************************************************)
(* run_multithreaded / run_multiprocessed:                                 *)
(*     return list(pool.map(func, datnums))                                *)
(* Executor.map submits one future per datnum, in order; the pool's        *)
(* workers take queued futures first-in first-out and finish them in any   *)
(* order; the iterator that list() consumes takes the futures' results in  *)
(* submission order and re-raises the first exception it meets.            *)
(***************************************************************************)
MaxLen == 3         \* datnums handed to one run_multithreaded call
MaxWorkers == 2     \* workers of the pool running at the same time

PoolDatnums == {1, 2}
FuncOutcomes == {[ok |-> TRUE, val |-> 10], [ok |-> TRUE, val |-> 20], [ok |-> FALSE, val |-> 0]}
DatnumSeqs == UNION {[1..n -> PoolDatnums] : n \in 0..MaxLen}

\* func(datnum), run by a worker
ApplyFunc(d) == func[d]

Running == {i \in 1..Len(futs) : futs[i].state = "running"}
Queued  == {i \in 1..Len(futs) : futs[i].state = "queued"}
Min(S) == CHOOSE x \in S : \A y \in S : x <= y
Max(S) == CHOOSE x \in S : \A y \in S : x >= y

\* an iterator that hands out results as they complete, latest submission first
NextFuture_AsCompleted(fs) ==
    LET fin == {i \in 1..Len(fs) : fs[i].state \in {"done", "failed"}}
    IN  IF fin # {} THEN Max(fin)
        ELSE Min({i \in 1..Len(fs) : fs[i].state # "yielded"})

\* the future whose result the map iterator waits for: the first not yet yielded
NextFuture(fs) == Min({i \in 1..Len(fs) : fs[i].state # "yielded"})

\* run_multithreaded(func, datnums) / run_multiprocessed(func, datnums) is called:
\* pool.map submits every datnum
PoolSubmit(f, ds) ==
    /\ ppc = "off"
    /\ func' = f
    /\ datnums' = ds
    /\ futs' = [i \in 1..Len(ds) |-> [state |-> "queued", res |-> 0]]
    /\ collected' = <<>>
    /\ ppc' = "iter"
    /\ UNCHANGED restP

\* a free worker takes the oldest queued future
PoolTake ==
    /\ ppc = "iter"
    /\ Queued # {}
    /\ Cardinality(Running) < MaxWorkers
    /\ futs' = [futs EXCEPT ![Min(Queued)].state = "running"]
    /\ UNCHANGED <<datnums, func, collected, ppc, restP>>

\* a worker finishes func(datnum): it returns or raises
PoolFinish(i) ==
    /\ i \in Running
    /\ futs' = [futs EXCEPT ![i] =
                 IF ApplyFunc(datnums[i]).ok
                   THEN [state |-> "done", res |-> ApplyFunc(datnums[i]).val]
                   ELSE [state |-> "failed", res |-> 0]]
    /\ UNCHANGED <<datnums, func, collected, ppc, restP>>

\* list() takes the next result from the map iterator
PoolYield ==
    /\ ppc = "iter"
    /\ Len(collected) < Len(datnums)
    /\ LET i == NextFuture(futs)
       IN  /\ futs[i].state = "done"
           /\ collected' = Append(collected, futs[i].res)
           /\ futs' = [futs EXCEPT ![i].state = "yielded"]
    /\ UNCHANGED <<datnums, func, ppc, restP>>

\* the map iterator meets a future that raised: the exception leaves
\* run_multithreaded, the futures still queued are cancelled
PoolRaise ==
    /\ ppc = "iter"
    /\ Len(collected) < Len(datnums)
    /\ futs[NextFuture(futs)].state = "failed"
    /\ futs' = [i \in 1..Len(futs) |->
                 IF futs[i].state = "queued" THEN [futs[i] EXCEPT !.state = "cancelled"]
                 ELSE futs[i]]
    /\ ppc' = "raised"
    /\ UNCHANGED <<datnums, func, collected, restP>>

\* every future is consumed: the list is returned
PoolReturn ==
    /\ ppc = "iter"
    /\ Len(collected) = Len(datnums)
    /\ ppc' = "done"
    /\ UNCHANGED <<datnums, func, futs, collected, restP>>

PoolSubmitStep == \E f \in [PoolDatnums -> FuncOutcomes], ds \in DatnumSeqs : PoolSubmit(f, ds)
PoolFinishStep == \E i \in 1..MaxLen : PoolFinish(i)

\* no dat on disk, nothing open, nothing saved, nothing cached
NothingYet ==
    /\ open_dats = <<>> /\ hdf_files = {} /\ exp_files = {} /\ nextInst = 1
    /\ opens = [id \in FullIds |-> 0]
    /\ given = [id \in FullIds |-> {}]
    /\ hret = [id |-> <<>>, exc |-> "none", dat |-> 0, opened |-> FALSE]
    /\ ThreadsIdle
    /\ PoolIdle
    /\ SeIdle
    /\ LruIdle /\ AttrsIdle /\ FitIdle /\ PropIdle /\ DirsIdle

InitEmpty == NothingYet /\ FnIdle

NextPool ==
    \/ PoolSubmitStep \/ PoolTake \/ PoolFinishStep
    \/ PoolYield \/ PoolRaise \/ PoolReturn

InitPool == InitEmpty

SpecPool == InitPool /\ [][NextPool]_vars

\* C3: the list run_multithreaded / run_multiprocessed returns has one entry per datnum
\* and its i-th entry is func applied to the i-th datnum, whatever order the workers
\* finished in.
C3_ResultsInOrder ==
    ppc = "done" =>
        /\ Len(collected) = Len(datnums)
        /\ \A i \in 1..Len(datnums) :
              func[datnums[i]].ok /\ collected[i] = func[datnums[i]].val

\* a list of different results was returned
C3_Witness ==
    /\ ppc = "done"
    /\ Len(datnums) = MaxLen
    /\ datnums[1] # datnums[2]
    /\ collected[1] # collected[2]

(***************************************************************************)
(* SquareEntropy: Inputs, ProcessParams and Outputs kept in the HDF        *)
(***************************************************************************)
SeNames == {"default", "a"}                 \* names Outputs are saved under
SaveNames == {"a"}                          \* save_name of Inputs / ProcessParams
OptNames == {None} \cup {Some(n) : n \in SaveNames \cup {"b"}}
OptSaveNames == {None} \cup {Some(n) : n \in SaveNames}

\* Python truth value of an optional int: None and 0 are false
Truthy(o) == o # None /\ o[1] # 0

NoExc(v) == [exc |-> "none", val |-> v]

\* HDF_Util.get_attr(group, name, default, check_exists): the stored value; when
\* nothing is stored under name, default, or NotFoundInHdfError if check_exists.
HDU_get_attr(group, name, default, check_exists) ==
    IF name \in DOMAIN group THEN NoExc(Some(group[name]))
    ELSE IF check_exists THEN [exc |-> "NotFoundInHdfError", val |-> None]
    ELSE NoExc(default)

\* HDF_Util.set_attr(group, name, value)
HDU_set_attr(group, name, value) == DictSet(group, name, value)

\* DatAttribute.get_group_attr(name, default=None, check_exists, group_name, dataclass);
\* SquareEntropy names the dataclass argument DataClass
get_group_attr(group, name, check_exists) == HDU_get_attr(group, name, None, check_exists)

\* DatAttribute.set_group_attr(name, value, group_name)
set_group_attr(group, name, value) == HDU_set_attr(group, name, value)

\* What the dat holds: AWG info and the 'x' data of the attribute's Data group.
AwgInfo == [num_steps |-> 5, num_cycles |-> 4]
DataX == "x_hdf"

\* Arguments of get_Inputs (None: not given).  i_sense is handled like x_array,
\* setpoint_lengths and full_wave_masks like num_cycles.
InputArgs ==
    [x_array : {None, Some("x1")},
     num_steps : {None, Some(0), Some(3)},
     num_cycles : {None, Some(2)},
     centers : {None, Some("c1")},
     avg_nans : {None, Some(TRUE)}]

NoInputArgs == [x_array |-> None, num_steps |-> None, num_cycles |-> None,
                centers |-> None, avg_nans |-> None]

\* get_Inputs, lines 262-268: the saved Input with every given argument set on it
InputOverride(inp, a) ==
    [x_array |-> IF a.x_array # None THEN a.x_array[1] ELSE inp.x_array,
     num_steps |-> IF a.num_steps # None THEN a.num_steps[1] ELSE inp.num_steps,
     num_cycles |-> IF a.num_cycles # None THEN a.num_cycles[1] ELSE inp.num_cycles,
     centers |-> IF a.centers # None THEN a.centers ELSE inp.centers,
     avg_nans |-> IF a.avg_nans # None THEN a.avg_nans[1] ELSE inp.avg_nans]

\* get_Inputs, lines 270-292: a new Input, what is not given comes from the dat
InputDefault(a) ==
    LET awg == a.num_steps = None \/ a.num_cycles = None
    IN  [x_array |-> IF a.x_array = None THEN DataX ELSE a.x_array[1],
         num_steps |-> IF awg /\ ~Truthy(a.num_steps) THEN AwgInfo.num_steps
                       ELSE a.num_steps[1],
         num_cycles |-> IF awg /\ ~Truthy(a.num_cycles) THEN AwgInfo.num_cycles
                        ELSE a.num_cycles[1],
         centers |-> a.centers,
         avg_nans |-> IF a.avg_nans = None THEN FALSE ELSE a.avg_nans[1]]

\* _get_saved_Inputs / _get_saved_ProcessParams: get_group_attr(name, check_exists=True)
GetSaved(group, name) ==
    IF name # None THEN get_group_attr(group, name[1], TRUE) ELSE NoExc(None)

\* SquareEntropy.get_Inputs(name, <arguments>, save_name): the exception or the
\* Input returned, and the Inputs group afterwards
get_Inputs(group, name, a, save_name) ==
    LET saved == GetSaved(group, name)
        inp == IF saved.val # None THEN InputOverride(saved.val[1], a) ELSE InputDefault(a)
    IN  IF saved.exc # "none"
          THEN [exc |-> saved.exc, val |-> None, hdf |-> group]
          ELSE [exc |-> "none", val |-> Some(inp),
                hdf |-> IF save_name # None THEN set_group_attr(group, save_name[1], inp)
                        ELSE group]

\* Arguments of get_ProcessParams (None: not given).  transition_fit_func and
\* transition_fit_params are written and read by HDF_Util code outside this source
\* tree and are left out.
PPFields == {"setpoint_start", "setpoint_fin", "cycle_start", "cycle_fin"}
PPArgs == [PPFields -> {None, Some(0), Some(1)}]
NoPPArgs == [f \in PPFields |-> None]

\* get_ProcessParams, lines 353-360: if <argument>: pp.<field> = <argument>
PPOverride(pp, a) == [f \in PPFields |-> IF Truthy(a[f]) THEN a[f] ELSE pp[f]]

\* SquareEntropy.get_ProcessParams(name, <arguments>, save_name)
get_ProcessParams(group, name, a, save_name) ==
    LET saved == GetSaved(group, name)
        pp == IF saved.val = None THEN a ELSE PPOverride(saved.val[1], a)
    IN  IF saved.exc # "none"
          THEN [exc |-> saved.exc, val |-> None, hdf |-> group]
          ELSE [exc |-> "none", val |-> Some(pp),
                hdf |-> IF save_name # None THEN set_group_attr(group, save_name[1], pp)
                        ELSE group]

GetInputs(name, a, save_name) ==
    LET r == get_Inputs(hdfInputs, name, a, save_name)
    IN  /\ hdfInputs' = r.hdf
        /\ seRet' = [op |-> "get_Inputs", call |-> None, exc |-> r.exc, val |-> r.val,
                     computed |-> FALSE, fits |-> FALSE]
        /\ UNCHANGED <<hdfPP, hdfOutputs, hdfFits, _Outputs, restS>>

GetProcessParams(name, a, save_name) ==
    LET r == get_ProcessParams(hdfPP, name, a, save_name)
    IN  /\ hdfPP' = r.hdf
        /\ seRet' = [op |-> "get_ProcessParams", call |-> None, exc |-> r.exc,
                     val |-> r.val, computed |-> FALSE, fits |-> FALSE]
        /\ UNCHANGED <<hdfInputs, hdfOutputs, hdfFits, _Outputs, restS>>

GetInputsStep == \E name \in OptNames, a \in InputArgs, sn \in OptSaveNames :
    GetInputs(name, a, sn)
GetProcessParamsStep == \E name \in OptNames, a \in PPArgs, sn \in OptSaveNames :
    GetProcessParams(name, a, sn)

InitSE == InitEmpty

SpecInputs == InitSE /\ [][GetInputsStep]_vars
SpecPP == InitSE /\ [][GetProcessParamsStep]_vars

\* C7: get_ProcessParams called with the name of saved ProcessParams returns the saved
\* values with every argument that is not None, 0 included, put in place of the saved
\* field; an argument that is None leaves the saved field as it is.
C7_SpecifiedReplacesSaved ==
    [][\A name \in SaveNames, a \in PPArgs, sn \in OptSaveNames :
         (name \in DOMAIN hdfPP /\ GetProcessParams(Some(name), a, sn)) =>
            /\ seRet'.exc = "none"
            /\ \A f \in PPFields :
                 seRet'.val[1][f] = IF a[f] # None THEN a[f] ELSE hdfPP[name][f]]_vars

\* C8: get_Inputs and get_ProcessParams write to the HDF only under save_name, a later
\* call with that name starts from what was saved, and a call with a name that has not
\* been saved builds the object from the defaults.
C8_SavedOnlyOnRequest ==
    [][\A name \in OptNames, a \in InputArgs, sn \in OptSaveNames :
         GetInputs(name, a, sn) =>
            /\ sn = None => hdfInputs' = hdfInputs
            /\ sn # None => (seRet'.exc = "none" /\ sn[1] \in DOMAIN hdfInputs'
                             /\ hdfInputs'[sn[1]] = seRet'.val[1])
            /\ (name # None /\ name[1] \in DOMAIN hdfInputs) =>
                   seRet'.val = Some(InputOverride(hdfInputs[name[1]], a))
            /\ (name = None \/ name[1] \notin DOMAIN hdfInputs) =>
                   seRet'.val = Some(InputDefault(a))]_vars

(***************************************************************************)
(* SquareEntropy.get_Outputs                                               *)
(***************************************************************************)
\* Inputs and ProcessParams a caller passes to get_Outputs
GivenInputs == {None, Some(InputDefault([NoInputArgs EXCEPT !.centers = Some("c1")]))}
GivenPPs == {None, Some([NoPPArgs EXCEPT !["setpoint_start"] = Some(1)])}

OutputCalls ==
    [name : {None} \cup {Some(n) : n \in SeNames},
     inputs : GivenInputs,
     process_params : GivenPPs,
     overwrite : BOOLEAN,
     existing_only : BOOLEAN]

\* lines 396-398: None passed in for name is changed to "default"
OutputName(name) == IF name = None THEN "default" ELSE name[1]

\* process_per_row_parts and process_avg_parts: the Output of these inputs,
\* process params and centers
process_parts(inputs, pp, centers) ==
    [x |-> inputs.x_array, num_steps |-> inputs.num_steps,
     avg_nans |-> inputs.avg_nans, centers_used |-> centers, process_params |-> pp]

\* Output_names(): names of the Outputs saved in the HDF
Output_names(group) == DOMAIN group

\* _get_saved_Outputs(name): the Output in memory, read from the HDF the first time
get_saved_Outputs(group, mem, name) ==
    LET cache1 == IF name \notin DOMAIN mem
                    THEN DictSet(mem, name, get_group_attr(group, name, TRUE).val[1])
                    ELSE mem
    IN  [val |-> cache1[name], cache |-> cache1]

\* _save_Outputs as a bug would have it: kept in memory only
save_Outputs_MemoryOnly(group, mem, name, out) ==
    [cache |-> DictSet(mem, name, out), hdf |-> group]

\* _save_Outputs(name, out): into self._Outputs and into the HDF
save_Outputs(group, mem, name, out) ==
    [cache |-> DictSet(mem, name, out), hdf |-> set_group_attr(group, name, out)]

\* lines 399-400 as a bug would have it: the saved Output is never looked for
LooksForSaved_Never(overwrite, name, group) == FALSE

\* lines 399-400: if not overwrite: if name in self.Output_names()
LooksForSaved(overwrite, name, group) == ~overwrite /\ name \in Output_names(group)

\* SquareEntropy.get_Outputs(name, inputs, process_params, overwrite, existing_only)
get_Outputs(c) ==
    LET name == OutputName(c.name)
        same == [hdf |-> hdfOutputs, cache |-> _Outputs, fitsSaved |-> hdfFits,
                 computed |-> FALSE, fits |-> FALSE]
    IN  IF LooksForSaved(c.overwrite, name, hdfOutputs)
          THEN LET got == get_saved_Outputs(hdfOutputs, _Outputs, name)
               IN  [same EXCEPT !.cache = got.cache] @@ NoExc(Some(got.val))
        ELSE IF c.existing_only
          THEN same @@ [exc |-> "NotFoundInHdfError", val |-> None]
        ELSE
          LET inputs == IF c.inputs = None
                          THEN get_Inputs(hdfInputs, None, NoInputArgs, None).val[1]
                          ELSE c.inputs[1]
              pp == IF c.process_params = None
                      THEN get_ProcessParams(hdfPP, None, NoPPArgs, None).val[1]
                      ELSE c.process_params[1]
              fit == inputs.centers = None
              centers == IF fit THEN "fitted" ELSE inputs.centers[1]
              out == process_parts(inputs, pp, centers)
              saved == save_Outputs(hdfOutputs, _Outputs, name, out)
          IN  [hdf |-> saved.hdf, cache |-> saved.cache,
               fitsSaved |-> IF fit THEN hdfFits \cup {name} ELSE hdfFits,
               computed |-> TRUE,
               fits |-> fit /\ (c.overwrite \/ name \notin hdfFits)] @@ NoExc(Some(out))

GetOutputs(c) ==
    LET r == get_Outputs(c)
    IN  /\ hdfOutputs' = r.hdf
        /\ _Outputs' = r.cache
        /\ hdfFits' = r.fitsSaved
        /\ seRet' = [op |-> "get_Outputs", call |-> c, exc |-> r.exc, val |-> r.val,
                     computed |-> r.computed, fits |-> r.fits]
        /\ UNCHANGED <<hdfInputs, hdfPP, restS>>

\* SquareEntropy.clear_caches()
ClearCaches ==
    /\ _Outputs' = <<>>
    /\ seRet' = [op |-> "clear_caches", call |-> None, exc |-> "none", val |-> None,
                 computed |-> FALSE, fits |-> FALSE]
    /\ UNCHANGED <<hdfInputs, hdfPP, hdfOutputs, hdfFits, restS>>

GetOutputsStep == \E c \in OutputCalls : GetOutputs(c)

NextOutputs == GetOutputsStep \/ ClearCaches

SpecOutputs == InitSE /\ [][NextOutputs]_vars

\* the step is a get_Outputs call
IsGetOutputs == seRet'.op = "get_Outputs"
CalledName == OutputName(seRet'.call.name)

C5_ExistingOnlyLoads ==
    [][(IsGetOutputs /\ seRet'.call.existing_only) =>
          /\ IF CalledName \in DOMAIN hdfOutputs
               THEN seRet'.exc = "none" /\ seRet'.val = Some(hdfOutputs[CalledName])
               ELSE seRet'.exc = "NotFoundInHdfError"
          /\ ~seRet'.computed
          /\ hdfOutputs' = hdfOutputs /\ hdfFits' = hdfFits]_vars

maxsize == 2        \* MyLRU's maxsize (128 in the source), kept small

\* _generate_hash_key(*args, **kwargs) = hash(args) + hash(frozenset(sorted(kwargs.items())));
\* the pair stands for the sum of the two hashes, taken to be free of collisions
generate_hash_key(args, kwargs) == <<args, kwargs>>

\* the key wrapper() uses: with wrapping_method the first argument (self) is dropped
WrapperKey(wrapping_method, args, kwargs) ==
    IF wrapping_method THEN generate_hash_key(Tail(args), kwargs)
    ELSE generate_hash_key(args, kwargs)

\* get_data(key) and get_data(key=key) as wrapper() receives them
CallArgs(self, k, style) == IF style = "pos" THEN <<self, k>> ELSE <<self>>
CallKwargs(k, style) == IF style = "pos" THEN {} ELSE {<<"key", k>>}
CacheKeys == {generate_hash_key(<<k>>, {}) : k \in DataKeys}
               \cup {generate_hash_key(<<>>, {<<"key", k>>}) : k \in DataKeys}

\* OrderedDict operations
Keys(c) == {c[i].key : i \in 1..Len(c)}
IndexOf(c, k) == CHOOSE i \in 1..Len(c) : c[i].key = k
Lookup(c, k) == c[IndexOf(c, k)].val
Without(c, k) == SelectSeq(c, LAMBDA e : e.key # k)

\* a cache that never reorders its entries
move_to_end_Never(c, k) == c

\* cache.move_to_end(key)
move_to_end(c, k) == Append(Without(c, k), c[IndexOf(c, k)])

\* cache[key] = value: in place if the key is there, at the end if not
SetItem(c, k, v) ==
    IF k \in Keys(c) THEN [c EXCEPT ![IndexOf(c, k)].val = v]
    ELSE Append(c, [key |-> k, val |-> v])

\* cache.popitem(last=False)
popitem_first(c) == Tail(c)

\* wrapper(*args, **kwargs), lines 872-885; result is what func(*args, **kwargs) gives
wrapper(c, key, result) ==
    IF key \in Keys(c)
      THEN [cache |-> move_to_end(c, key), val |-> Lookup(c, key), called |-> FALSE,
            evicted |-> None]
      ELSE LET c1 == SetItem(c, key, result)
           IN  IF Len(c1) > maxsize
                 THEN [cache |-> popitem_first(c1), val |-> result, called |-> TRUE,
                       evicted |-> Some(c1[1].key)]
                 ELSE [cache |-> c1, val |-> result, called |-> TRUE, evicted |-> None]

\* cache_replace(value, *args, **kwargs), lines 896-898
cache_replace(c, key, value) == SetItem(c, key, value)

\* cache_remove(*args, **kwargs), lines 890-894
cache_remove(c, key) == IF key \in Keys(c) THEN Without(c, key) ELSE c

\* history: key was accessed (a hit or an insertion) and the cache now holds keys
Touch(r, key, keys) == SelectSeq(SelectSeq(r, LAMBDA k : k # key) \o <<key>>, LAMBDA k : k \in keys)
Forget(r, keys) == SelectSeq(r, LAMBDA k : k \in keys)

\* FittingAttribute.get_data(key): the wrapped function reads the attribute's Data group
GetData(self, k, style) ==
    LET key == WrapperKey(TRUE, CallArgs(self, k, style), CallKwargs(k, style))
        r == wrapper(cache, key, hdfData[<<self, k>>])
    IN  /\ cache' = r.cache
        /\ recency' = Touch(recency, key, Keys(r.cache))
        /\ lruRet' = [op |-> "call", key |-> Some(key), val |-> r.val,
                      called |-> r.called, evicted |-> r.evicted,
                      self |-> Some(self), arg |-> Some(k), style |-> style,
                      exc |-> "none"]
        /\ UNCHANGED <<hdfData, restL>>

\* FittingAttribute.set_data(key, value): HDU.set_data, then cache_replace(value, key)
SetData(self, k, value) ==
    LET key == generate_hash_key(<<k>>, {})
    IN  /\ hdfData' = [hdfData EXCEPT ![<<self, k>>] = value]
        /\ cache' = cache_replace(cache, key, value)
        /\ recency' = IF key \in Keys(cache) THEN recency
                      ELSE Touch(recency, key, Keys(cache'))
        /\ lruRet' = [op |-> "cache_replace", key |-> Some(key), val |-> value,
                      called |-> FALSE, evicted |-> None,
                      self |-> Some(self), arg |-> Some(k), style |-> "pos",
                      exc |-> "none"]
        /\ UNCHANGED restL

\* get_data.cache_remove(key)
CacheRemove(k) ==
    LET key == generate_hash_key(<<k>>, {})
    IN  /\ cache' = cache_remove(cache, key)
        /\ recency' = Forget(recency, Keys(cache'))
        /\ lruRet' = [op |-> "cache_remove", key |-> Some(key), val |-> 0,
                      called |-> FALSE, evicted |-> None,
                      self |-> None, arg |-> Some(k), style |-> "pos",
                      exc |-> "none"]
        /\ UNCHANGED <<hdfData, restL>>

\* get_data.cache_clear()
CacheClear ==
    /\ cache' = <<>>
    /\ recency' = <<>>
    /\ lruRet' = [op |-> "cache_clear", key |-> None, val |-> 0,
                  called |-> FALSE, evicted |-> None,
                  self |-> None, arg |-> None, style |-> "none", exc |-> "none"]
    /\ UNCHANGED <<hdfData, restL>>

GetDataStep == \E self \in Attrs, k \in DataKeys, style \in {"pos", "kw"} : GetData(self, k, style)
SetDataStep == \E self \in Attrs, k \in DataKeys, v \in DataVals : SetData(self, k, v)
CacheRemoveStep == \E k \in DataKeys : CacheRemove(k)

NextLRU == GetDataStep \/ SetDataStep \/ CacheRemoveStep \/ CacheClear

InitLRU == InitEmpty

SpecLRU == InitLRU /\ [][NextLRU]_vars

\* C9: after any sequence of wrapped calls, cache_replace, cache_remove and cache_clear
\* the cache holds at most maxsize entries.
C9_AtMostMaxsize == Len(cache) <= maxsize

\* C10: a call whose key is cached returns the cached value without calling the wrapped
\* function and makes the entry the most recently used one; a miss that makes the cache
\* exceed maxsize evicts exactly one entry, the one accessed (hit or inserted) longest ago.
C10_EvictsLeastRecentlyUsed ==
    [][lruRet'.op = "call" =>
         LET key == lruRet'.key[1]
         IN  IF key \in Keys(cache)
               THEN /\ lruRet'.val = Lookup(cache, key) /\ ~lruRet'.called
                    /\ lruRet'.evicted = None
                    /\ cache'[Len(cache')].key = key
                    /\ Keys(cache') = Keys(cache)
               ELSE /\ lruRet'.called
                    /\ IF Len(cache) + 1 > maxsize
                         THEN /\ lruRet'.evicted = Some(recency[1])
                              /\ Keys(cache') = (Keys(cache) \cup {key}) \ {recency[1]}
                              /\ Len(cache') = Len(cache)
                         ELSE /\ lruRet'.evicted = None
                              /\ Keys(cache') = Keys(cache) \cup {key}]_vars

\* a miss evicted an entry that was not the first one inserted
C10_Witness ==
    /\ lruRet.op = "call" /\ lruRet.evicted # None
    /\ lruRet.evicted[1] = generate_hash_key(<<"y">>, {})
    /\ Keys(cache) = {generate_hash_key(<<"x">>, {}), generate_hash_key(<<>>, {<<"key", "y">>})}

\* C11: a get_data(key) call that directly follows set_data(key, value) on the same
\* attribute returns value, whatever get_data and set_data calls came before.
C11_SetThenGet ==
    [][(/\ lruRet.op = "cache_replace" /\ lruRet'.op = "call"
        /\ lruRet'.self = lruRet.self /\ lruRet'.arg = lruRet.arg)
       => lruRet'.val = lruRet.val]_vars

(***************************************************************************)
(* clear_caches of FittingAttribute and of ExpConfigGroupDatAttribute      *)
(***************************************************************************)
\* the attributes MyLRU puts on the wrapper it returns (core_util.py lines 907-909)
MyLRUAttrs == {"cache_clear", "cache_remove", "cache_replace"}
\* the attributes of a function decorated with functools.lru_cache
lru_cacheAttrs == {"cache_info", "cache_clear", "cache_parameters"}

\* FittingAttribute.clear_caches: self.get_data.clear_cache(), then
\* self._get_fit.clear_cache(); looking up a name the function object does not have
\* raises AttributeError and ends the call. (The cache of _get_fit is not modelled.)
FittingAttribute_clear_caches(c) ==
    IF "clear_cache" \notin MyLRUAttrs THEN [cache |-> c, exc |-> "AttributeError"]
    ELSE IF "clear_cache" \notin lru_cacheAttrs THEN [cache |-> <<>>, exc |-> "AttributeError"]
    ELSE [cache |-> <<>>, exc |-> "none"]

\* ExpConfigGroupDatAttribute.clear_caches: self.get_sweeplogs.clear_cache()
ExpConfig_clear_caches(sc) ==
    IF "clear_cache" \notin lru_cacheAttrs THEN [cache |-> sc, exc |-> "AttributeError"]
    ELSE [cache |-> None, exc |-> "none"]

CacheOp(op, exc) ==
    [op |-> op, key |-> None, val |-> 0, called |-> FALSE, evicted |-> None,
     self |-> None, arg |-> None, style |-> "none", exc |-> exc]

FaClearCaches ==
    LET r == FittingAttribute_clear_caches(cache)
    IN  /\ cache' = r.cache
        /\ recency' = Forget(recency, Keys(r.cache))
        /\ lruRet' = CacheOp("clear_caches", r.exc)
        /\ UNCHANGED <<hdfData, restL>>

ExpClearCaches ==
    LET r == ExpConfig_clear_caches(sweepCache)
    IN  /\ sweepCache' = r.cache
        /\ lruRet' = CacheOp("exp_clear_caches", r.exc)
        /\ UNCHANGED <<hdfSubs, cache, recency, hdfData, restE>>

\* get_sweeplogs(): lru_cache keeps the result per instance; the wrapped function
\* substitutes 'sweeplog_substitutions' into the sweep_logs string of the HDF
GetSweeplogs ==
    /\ sweepCache' = IF sweepCache = None THEN Some(hdfSubs) ELSE sweepCache
    /\ lruRet' = [CacheOp("get_sweeplogs", "none") EXCEPT
                     !.val = sweepCache'[1], !.called = (sweepCache = None)]
    /\ UNCHANGED <<hdfSubs, cache, recency, hdfData, restE>>

\* set_group_attr('sweeplog_substitutions', subs)
SetSweeplogSubs(subs) ==
    /\ hdfSubs' = subs
    /\ lruRet' = CacheOp("set_subs", "none")
    /\ UNCHANGED <<sweepCache, cache, recency, hdfData, restE>>

SetSweeplogSubsStep == \E subs \in DataVals : SetSweeplogSubs(subs)

NextCaches ==
    \/ GetDataStep \/ FaClearCaches
    \/ GetSweeplogs \/ SetSweeplogSubsStep \/ ExpClearCaches

SpecCaches == InitLRU /\ [][NextCaches]_vars

\* C12: clear_caches completes without error and leaves no cached entry, both for a
\* FittingAttribute (the get_data cache) and for an ExpConfigGroupDatAttribute (the
\* get_sweeplogs cache), so that the next read goes to the HDF.
C12_ClearCachesClears ==
    [][/\ lruRet'.op = "clear_caches" => (lruRet'.exc = "none" /\ cache' = <<>>)
       /\ lruRet'.op = "exp_clear_caches" => (lruRet'.exc = "none" /\ sweepCache' = None)]_vars

(***************************************************************************)
(* Construction of a DatAttribute: __init__, check_init, _initialize       *)
(***************************************************************************)
MaxTime == 2        \* the clock stops here

\* an HDF group: its attrs, its subgroups, and whether the data of dat.Data is linked
EmptyGroup == [attrs |-> <<>>, groups |-> {}, linked |-> FALSE]

\* group.attrs.get(name, default)
AttrsGet(g, name, default) == IF name \in DOMAIN g.attrs THEN g.attrs[name] ELSE default

\* group.attrs[name] = value
AttrsSet(g, name, value) == [g EXCEPT !.attrs = DictSet(g.attrs, name, value)]

Version(kind) == IF kind = "ExpConfigGroupDatAttribute" THEN "1.0.0" ELSE "version"

\* FittingAttribute._initialize_minimum, lines 637-645: the subgroups, then
\* get_data_from_Data(), whose _copy_data raises FileNotFoundError when data is not in
\* dat.Data or is already linked in the attribute's Data group
FittingAttribute_initialize_minimum(g, dataOk) ==
    LET g1 == [g EXCEPT !.groups = @ \cup {"Data", "Avg fit", "Row fits"}]
    IN  IF ~dataOk \/ g1.linked THEN [g |-> g1, exc |-> "FileNotFoundError"]
        ELSE [g |-> [g1 EXCEPT !.linked = TRUE], exc |-> "none"]

\* ExpConfigGroupDatAttribute._initialize_minimum, lines 132-138
ExpConfig_initialize_minimum(g, exp_config) ==
    IF exp_config = None THEN [g |-> g, exc |-> "ValueError"]
    ELSE [g |-> AttrsSet(AttrsSet(g, "sweeplog_substitutions", exp_config[1]),
                         "initialized", TRUE),
          exc |-> "none"]

\* DatAttribute._initialize_minimum, lines 136-149
DatAttribute_initialize_minimum(g) == [g |-> AttrsSet(g, "initialized", TRUE), exc |-> "none"]

initialize_minimum(kind, g, exp_config, dataOk) ==
    CASE kind = "DatAttribute" -> DatAttribute_initialize_minimum(g)
      [] kind = "ExpConfigGroupDatAttribute" -> ExpConfig_initialize_minimum(g, exp_config)
      [] kind = "FittingAttribute" -> FittingAttribute_initialize_minimum(g, dataOk)

\* _write_default_group_attrs, lines 177-184
write_default_group_attrs(kind, g) ==
    AttrsSet(AttrsSet(g, "version", Version(kind)), "description", "description")

\* _initialize, lines 124-129; what is written before an exception stays in the HDF
initialize(kind, g, exp_config, dataOk, time) ==
    LET m == initialize_minimum(kind, g, exp_config, dataOk)
        g2 == write_default_group_attrs(kind, m.g)
    IN  IF m.exc # "none" THEN m
        ELSE IF AttrsGet(g2, "initialized", FALSE) # TRUE
               THEN [g |-> g2, exc |-> "AssertionError"]
        ELSE [g |-> AttrsSet(g2, "date_initialized", time), exc |-> "none"]

\* check_init, lines 115-122
check_init(kind, group, exp_config, dataOk, time) ==
    LET g == IF group = None THEN EmptyGroup ELSE group
    IN  IF AttrsGet(g, "initialized", FALSE) = FALSE
          THEN initialize(kind, g, exp_config, dataOk, time)
          ELSE [g |-> g, exc |-> "none"]

\* DatAttribute.__init__ of a class of the given kind
Construct(kind, exp_config, dataOk) ==
    LET r == check_init(kind, hdfGroup[kind], exp_config, dataOk, now)
    IN  /\ hdfGroup' = [hdfGroup EXCEPT ![kind] = r.g]
        /\ constructed' = [constructed EXCEPT ![kind] = @ \/ r.exc = "none"]
        /\ initRet' = [op |-> "construct", kind |-> kind, exc |-> r.exc]
        /\ UNCHANGED <<now, restI>>

\* attr.initialized = value on an attribute that has been constructed, lines 66-69
SetInitialized(kind, value) ==
    /\ constructed[kind]
    /\ hdfGroup' = [hdfGroup EXCEPT ![kind] = AttrsSet(@, "initialized", value)]
    /\ initRet' = [op |-> "set_initialized", kind |-> kind, exc |-> "none"]
    /\ UNCHANGED <<constructed, now, restI>>

\* time passes
Tick ==
    /\ now < MaxTime
    /\ now' = now + 1
    /\ initRet' = [op |-> "tick", kind |-> "none", exc |-> "none"]
    /\ UNCHANGED <<hdfGroup, constructed, restI>>

ConstructStep == \E kind \in Kinds, exp_config \in {None, Some(1)}, dataOk \in BOOLEAN :
    Construct(kind, exp_config, dataOk)
SetInitializedStep == \E kind \in Kinds, value \in BOOLEAN : SetInitialized(kind, value)

NextAttrs == ConstructStep \/ SetInitializedStep \/ Tick

SpecAttrs == InitEmpty /\ [][NextAttrs]_vars

\* C13: a constructor that returns leaves the attribute's group in the HDF with
\* 'initialized' True and with version and description written, and the assertion
\* 'self.initialized == True' of _initialize never fails, whichever _initialize_minimum
\* ran.
C13_MinimallyInitialized ==
    initRet.op = "construct" =>
        /\ initRet.exc # "AssertionError"
        /\ initRet.exc = "none" =>
              LET g == hdfGroup[initRet.kind]
              IN  /\ g # None
                  /\ AttrsGet(g, "initialized", FALSE) = TRUE
                  /\ {"version", "description"} \subseteq DOMAIN g.attrs

(***************************************************************************)
(* entropy_signal                                                          *)
(***************************************************************************)
MaxWidth == 2                  \* longest second axis of the data
NumPhases == 4                 \* v0_0, vP, v0_1, vM
SignalVals == {0, 1}
FirstAxisLens == {NumPhases - 1, NumPhases, NumPhases + 1}

\* 2D data: a sequence over the first axis of sequences over the second
Arrays(n, w) == [1..n -> [1..w -> SignalVals]]
SignalData == UNION {Arrays(n, w) : n \in FirstAxisLens, w \in 1..MaxWidth}

\* np.mean(data[rows,], axis=0) for two rows, held as twice its value so that the
\* halves stay integers; rows are numbered from 0 as in the source
Mean2(data, r1, r2) == [j \in 1..Len(data[1]) |-> data[r1 + 1][j] + data[r2 + 1][j]]

\* entropy_signal without the factor -1
entropy_signal_Unsigned(data) ==
    IF Len(data) # NumPhases THEN [exc |-> "AssertionError", val |-> <<>>]
    ELSE [exc |-> "none",
          val |-> [j \in 1..Len(data[1]) |->
                     Mean2(data, 1, 3)[j] - Mean2(data, 0, 2)[j]]]

\* entropy_signal, lines 1024-1037 (val is twice the entropy signal)
entropy_signal(data) ==
    IF Len(data) # NumPhases THEN [exc |-> "AssertionError", val |-> <<>>]
    ELSE [exc |-> "none",
          val |-> [j \in 1..Len(data[1]) |->
                     -1 * (Mean2(data, 1, 3)[j] - Mean2(data, 0, 2)[j])]]

InitSignal == NothingYet /\ fnArg \in SignalData /\ fnRet = None

EntropySignal ==
    /\ fnRet = None
    /\ fnRet' = Some(entropy_signal(fnArg))
    /\ UNCHANGED <<fnArg, restF>>

SpecSignal == InitSignal /\ [][EntropySignal]_vars

\* C14: for data with the four phases v0_0, vP, v0_1, vM along its first axis,
\* entropy_signal gives mean(v0_0, v0_1) - mean(vP, vM) element by element, in the shape
\* of data without its first axis; data with another first-axis length fails the
\* assertion.
C14_EntropySignal ==
    fnRet # None =>
        IF Len(fnArg) = NumPhases
          THEN LET v0_0 == fnArg[1]  vP == fnArg[2]  v0_1 == fnArg[3]  vM == fnArg[4]
               IN  /\ fnRet[1].exc = "none"
                   /\ DOMAIN fnRet[1].val = DOMAIN v0_0
                   /\ \A j \in DOMAIN v0_0 :
                         fnRet[1].val[j] = (v0_0[j] + v0_1[j]) - (vP[j] + vM[j])
          ELSE fnRet[1].exc = "AssertionError"

\* a signal with a positive and a negative element
C14_Witness ==
    /\ fnRet # None /\ Len(fnArg) = NumPhases /\ Len(fnArg[1]) = 2
    /\ fnRet[1].val[1] > 0 /\ fnRet[1].val[2] < 0

(***************************************************************************)
(* FitInfo.save_to_hdf / from_hdf, in DatAttribute.py and in fitting.py    *)
(***************************************************************************)
\* the function names FitInfo._get_func of fitting.py knows, lines 167-174
KnownFuncs == {"i_sense", "i_sense_strong", "i_sense_digamma", "i_sense_digamma_quad",
               "i_sense_digamma_amplin", "entropy_nik_shape"}
FuncNames == {"i_sense", "my_func"}
FuncCode(name) == <<"source of", name>>

\* the FitInfos init_from_fit builds (with params), and one without params
FitInfos ==
    [params : {None, Some("p1"), Some("p2")}, init_params : {Some("ip1")},
     func_name : {Some(f) : f \in FuncNames}, fit_report : {Some("report")},
     success : {Some(TRUE), Some(FALSE)}, hash : {None, Some(5)},
     fit_result : {Some("ModelResult")}]
func_code(fi) == IF fi.func_name = None THEN None ELSE Some(FuncCode(fi.func_name[1]))

\* what the missing class of the two does not have stays None
FieldsOf(cls, fi) ==
    IF cls = "fitting.FitInfo" THEN fi
    ELSE [fi EXCEPT !.init_params = None, !.success = None, !.hash = None]

\* an HDF group of a fit: the parameters written into it, those of its 'init_params'
\* subgroup (None: no such subgroup), and its attrs
NewFitGroup == [params |-> None, init_params |-> None, attrs |-> <<>>]

\* HDF_Util.params_to_HDF(params, group)
params_to_HDF(params, stored) == params
\* HDF_Util.params_from_HDF(group): the parameters written there, an empty set of
\* parameters if none were
params_from_HDF(stored) == IF stored = None THEN Some("no params") ELSE stored
\* what HDF_Util.params_from_HDF does with None for a group
OnNoGroup == {"AttributeError", "NotFoundInHdfError", "no params"}

\* group.attrs.get(name, None)
FitAttr(g, name) == IF name \in DOMAIN g.attrs THEN Some(g.attrs[name]) ELSE None

\* fitting.py lines 153-154: if self.hash is not None: attrs['hash'] = int(self.hash)
WriteHash(attrs, hash) == IF hash # None THEN DictSet(attrs, "hash", hash[1]) ELSE attrs

\* save_to_hdf(parent_group, name) on the group found or created by require_group:
\* DatAttribute.py lines 452-464, fitting.py lines 139-154
save_to_hdf(cls, fi, group) ==
    LET g == IF group = None THEN NewFitGroup ELSE group
        a1 == DictSet(DictSet(DictSet(DictSet(g.attrs, "description", "FitInfo"),
                  "func_name", fi.func_name[1]), "func_code", func_code(fi)[1]),
                  "fit_report", fi.fit_report[1])
    IN  IF fi.params = None THEN g
        ELSE IF cls = "fitting.FitInfo"
          THEN [params |-> params_to_HDF(fi.params, g.params),
                init_params |-> params_to_HDF(fi.init_params, g.init_params),
                attrs |-> WriteHash(DictSet(a1, "success", fi.success[1]), fi.hash)]
          ELSE [g EXCEPT !.params = params_to_HDF(fi.params, g.params), !.attrs = a1]

Loaded(fi) == [exc |-> "none", fi |-> Some(fi)]
Raised(exc) == [exc |-> exc, fi |-> None]

\* init_from_hdf(group) of DatAttribute.py, lines 435-449 (HDU.get_func runs the saved
\* source of the function)
init_from_hdf_old(g) ==
    Loaded([params |-> params_from_HDF(g.params), init_params |-> None,
            func_name |-> FitAttr(g, "func_name"), fit_report |-> FitAttr(g, "fit_report"),
            func_code |-> FitAttr(g, "func_code"),
            success |-> None, hash |-> None, fit_result |-> None])

\* init_from_hdf(group) of fitting.py, lines 121-137, with _get_func, lines 156-178
init_from_hdf_new(g, onNoGroup) ==
    IF g.init_params = None /\ onNoGroup # "no params" THEN Raised(onNoGroup)
    ELSE IF FitAttr(g, "func_name") = None \/ FitAttr(g, "func_name")[1] \notin KnownFuncs
      THEN Raised("KeyError")
    ELSE Loaded([params |-> params_from_HDF(g.params),
                 init_params |-> params_from_HDF(g.init_params),
                 func_name |-> FitAttr(g, "func_name"),
                 fit_report |-> FitAttr(g, "fit_report"),
                 func_code |-> FitAttr(g, "func_code"),
                 success |-> FitAttr(g, "success"), hash |-> FitAttr(g, "hash"),
                 fit_result |-> None])

\* from_hdf(parent_group, name): DatAttribute.py lines 500-507 hands what
\* parent_group.get(name) gives to init_from_hdf, whose params_from_HDF(None) raises
\* or, if it does not, whose group.attrs on None does; fitting.py lines 234-243 checks
from_hdf(cls, group, onNoGroup) ==
    IF cls = "fitting.FitInfo"
      THEN IF group = None THEN Raised("NotFoundInHdfError")
           ELSE init_from_hdf_new(group, onNoGroup)
      ELSE IF group = None
             THEN Raised(IF onNoGroup = "no params" THEN "AttributeError" ELSE onNoGroup)
             ELSE init_from_hdf_old(group)

SaveFit(cls, fi, name) ==
    /\ fitGroups' = [fitGroups EXCEPT ![cls][name] = save_to_hdf(cls, fi, @)]
    /\ lastSaved' = IF fi.params = None THEN lastSaved
                    ELSE [lastSaved EXCEPT ![cls][name] = Some(FieldsOf(cls, fi))]
    /\ fitRet' = [op |-> "save", cls |-> cls, name |-> name, exc |-> "none", fi |-> None]
    /\ UNCHANGED restFit

LoadFit(cls, name, onNoGroup) ==
    LET r == from_hdf(cls, fitGroups[cls][name], onNoGroup)
    IN  /\ fitRet' = [op |-> "load", cls |-> cls, name |-> name, exc |-> r.exc, fi |-> r.fi]
        /\ UNCHANGED <<fitGroups, lastSaved, restFit>>

SaveFitStep == \E cls \in FitClasses, fi \in FitInfos, name \in FitSaveNames : SaveFit(cls, fi, name)
LoadFitStep == \E cls \in FitClasses, name \in FitNames, o \in OnNoGroup : LoadFit(cls, name, o)

NextFit == SaveFitStep \/ LoadFitStep

SpecFit == InitEmpty /\ [][NextFit]_vars

\* C15: from_hdf(parent_group, name) gives a FitInfo with the params, func_name,
\* func_code and fit_report (and, for fitting.FitInfo, the init_params, success and
\* hash) of the FitInfo with params last saved under name, and with fit_result None;
\* for a name under which none was saved it raises NotFoundInHdfError.
C15_RoundTrip ==
    fitRet.op = "load" =>
        LET saved == lastSaved[fitRet.cls][fitRet.name]
        IN  IF saved = None THEN fitRet.exc = "NotFoundInHdfError"
            ELSE /\ fitRet.exc = "none"
                 /\ fitRet.fi[1] = [saved[1] EXCEPT !.fit_result = None] @@
                                     [func_code |-> func_code(saved[1])]

(***************************************************************************)
(* DatAttribute.property_prop / property_set / set_group_attr              *)
(***************************************************************************)
\* group_name if group_name else self.group_name
GroupOf(group_name) == IF group_name = None THEN "self.group_name" ELSE group_name[1]

\* getattr(self, private_key, None)
GetPrivate(priv, attr_name) == IF attr_name \in DOMAIN priv THEN Some(priv[attr_name]) ELSE None

\* line 199: if not getattr(self, private_key, None)
UsesHdf(priv, attr_name) == ~Truthy(GetPrivate(priv, attr_name))

\* property_prop(attr_name, group_name), lines 186-201
property_prop(attrs, priv, attr_name, group_name) ==
    IF UsesHdf(priv, attr_name)
      THEN LET r == get_group_attr(attrs[GroupOf(group_name)], attr_name, TRUE)
           IN  IF r.exc # "none" THEN [exc |-> r.exc, val |-> None, private |-> priv]
               ELSE [exc |-> "none", val |-> r.val,
                     private |-> DictSet(priv, attr_name, r.val[1])]
      ELSE [exc |-> "none", val |-> GetPrivate(priv, attr_name), private |-> priv]

PropertyProp(attr_name, group_name) ==
    LET r == property_prop(groupAttrs, private, attr_name, group_name)
    IN  /\ private' = r.private
        /\ propRet' = [op |-> "property_prop", name |-> attr_name,
                       group |-> GroupOf(group_name), exc |-> r.exc, val |-> r.val]
        /\ UNCHANGED <<groupAttrs, restProp>>

\* property_set(attr_name, value, group_name), lines 203-212
PropertySet(attr_name, value, group_name) ==
    /\ groupAttrs' = [groupAttrs EXCEPT ![GroupOf(group_name)] =
                        set_group_attr(@, attr_name, value)]
    /\ private' = DictSet(private, attr_name, value)
    /\ propRet' = [op |-> "property_set", name |-> attr_name,
                   group |-> GroupOf(group_name), exc |-> "none", val |-> None]
    /\ UNCHANGED restProp

\* set_group_attr(name, value, group_name), lines 73-88
SetGroupAttr(attr_name, value, group_name) ==
    /\ groupAttrs' = [groupAttrs EXCEPT ![GroupOf(group_name)] =
                        set_group_attr(@, attr_name, value)]
    /\ propRet' = [op |-> "set_group_attr", name |-> attr_name,
                   group |-> GroupOf(group_name), exc |-> "none", val |-> None]
    /\ UNCHANGED <<private, restProp>>

PropertyPropStep == \E n \in PropNames, g \in OptGroups : PropertyProp(n, g)
PropertySetStep == \E n \in PropNames, v \in PropVals, g \in OptGroups : PropertySet(n, v, g)
SetGroupAttrStep == \E n \in PropNames, v \in PropVals, g \in OptGroups : SetGroupAttr(n, v, g)

NextProp == PropertyPropStep \/ PropertySetStep \/ SetGroupAttrStep

SpecProp == InitEmpty /\ [][NextProp]_vars

\* C16: after any property_set, set_group_attr and property_prop calls on one
\* DatAttribute, property_prop(attr_name) returns the value the HDF group holds for
\* attr_name at that moment.
C16_PropCoherent ==
    (propRet.op = "property_prop" /\ propRet.name \in DOMAIN groupAttrs[propRet.group]) =>
        /\ propRet.exc = "none"
        /\ propRet.val = Some(groupAttrs[propRet.group][propRet.name])

(***************************************************************************)
(* AWG.get_single_wave_masks / get_full_wave_masks and chunk_data          *)
(***************************************************************************)
MaxSetpoints == 3       \* most setpoints of a wave
MaxSpLen == 2           \* most samples of one setpoint
MaxSteps == 2           \* largest num_steps and num_cycles

\* a float is <<v>>, NaN is the empty tuple: NaN differs from every number
NaN == <<>>
Mul(a, b) == IF a = NaN \/ b = NaN THEN NaN ELSE <<a[1] * b[1]>>

RECURSIVE SumSeq(_)
SumSeq(q) == IF q = <<>> THEN 0 ELSE q[1] + SumSeq(Tail(q))

\* np.sum(lens[:i]) with i counted from 0
SumBefore(lens, i) == SumSeq(SubSeq(lens, 1, i))

\* get_single_wave_masks(num) for an AW with setpoint lengths lens, lines 90-112:
\* a row of zeros per setpoint, ones on m[s:s+lens[i]], then NaN where it is still 0
get_single_wave_masks(lens) ==
    LET zeros == [i \in 1..Len(lens) |-> [j \in 1..SumSeq(lens) |-> <<0>>]]
        ones == [i \in 1..Len(lens) |->
                   [j \in 1..SumSeq(lens) |->
                       IF SumBefore(lens, i - 1) < j /\ j <= SumBefore(lens, i - 1) + lens[i]
                         THEN <<1>> ELSE zeros[i][j]]]
    IN  [i \in 1..Len(lens) |->
           [j \in 1..SumSeq(lens) |-> IF ones[i][j] = <<0>> THEN NaN ELSE ones[i][j]]]

\* np.tile(single_masks, reps): every row repeated reps times along the last axis
tile(masks, reps) ==
    [i \in 1..Len(masks) |->
        [j \in 1..(Len(masks[i]) * reps) |-> masks[i][((j - 1) % Len(masks[i])) + 1]]]

\* get_full_wave_masks(num), lines 114-125
get_full_wave_masks(lens, num_cycles, num_steps) ==
    tile(get_single_wave_masks(lens), num_cycles * num_steps)

\* zm[~np.isnan(zm)]
NotNan(q) == SelectSeq(q, LAMBDA v : v # NaN)

\* chunk_data on 1D data, lines 904-928: per setpoint the masked data without its NaN
\* entries, reshaped to (num_steps, num_cycles, sp_len); reshape raises ValueError when
\* the number of entries is not num_steps * num_cycles * sp_len
chunk_data(data, masks, setpoint_lengths, num_steps, num_cycles) ==
    LET zm(i) == NotNan([j \in 1..Len(data) |-> Mul(data[j], masks[i][j])])
        fits(i) == Len(zm(i)) = num_steps * num_cycles * setpoint_lengths[i]
    IN  IF \E i \in 1..Len(masks) : ~fits(i) THEN [exc |-> "ValueError", val |-> <<>>]
        ELSE [exc |-> "none",
              val |-> [i \in 1..Len(masks) |->
                        [st \in 1..num_steps |-> [c \in 1..num_cycles |->
                           [k \in 1..setpoint_lengths[i] |->
                              zm(i)[((st - 1) * num_cycles + (c - 1)) * setpoint_lengths[i] + k]]]]]]

\* the waves, scans and data: sample j of the data holds the number j, so that a chunk
\* entry tells which sample it is; at most one sample (nanAt) is NaN
Waves == UNION {[1..n -> 0..MaxSpLen] : n \in 1..MaxSetpoints}
ScanData(n, nanAt) == [j \in 1..n |-> IF j = nanAt THEN NaN ELSE <<j>>]
Scans(lens) ==
    UNION {{[lens |-> lens, num_steps |-> st, num_cycles |-> c,
             data |-> ScanData(SumSeq(lens) * st * c, nanAt)] :
               nanAt \in 0..(SumSeq(lens) * st * c)} :
           st \in 1..MaxSteps, c \in 1..MaxSteps}

InitMasks ==
    /\ NothingYet
    /\ \E lens \in {w \in Waves : SumSeq(w) > 0} : fnArg \in Scans(lens)
    /\ fnRet = None

\* get_Inputs takes get_full_wave_masks(0) and process_per_row_parts chunks the data
ChunkWave ==
    /\ fnRet = None
    /\ LET full == get_full_wave_masks(fnArg.lens, fnArg.num_cycles, fnArg.num_steps)
       IN  fnRet' = Some([single |-> get_single_wave_masks(fnArg.lens),
                          full |-> full,
                          chunked |-> chunk_data(fnArg.data, full, fnArg.lens,
                                                 fnArg.num_steps, fnArg.num_cycles)])
    /\ UNCHANGED <<fnArg, restF>>

SpecMasks == InitMasks /\ [][ChunkWave]_vars

\* the part of C17 on the masks: mask i is 1 on the samples from sum(L_0..L_{i-1}) up
\* to but excluding sum(L_0..L_i) and NaN elsewhere, every sample of the cycle is
\* selected by exactly one mask, and the full masks repeat the single ones
\* num_cycles * num_steps times
MasksPartition ==
    LET lens == fnArg.lens
        W == SumSeq(lens)
        single == fnRet[1].single
        full == fnRet[1].full
    IN  /\ Len(single) = Len(lens) /\ Len(full) = Len(lens)
        /\ \A i \in 1..Len(lens) :
              /\ Len(single[i]) = W
              /\ \A j \in 1..W :
                    single[i][j] = IF SumBefore(lens, i - 1) < j /\ j <= SumBefore(lens, i)
                                     THEN <<1>> ELSE NaN
              /\ Len(full[i]) = W * fnArg.num_cycles * fnArg.num_steps
              /\ \A j \in 1..Len(full[i]) : full[i][j] = single[i][((j - 1) % W) + 1]
        /\ \A j \in 1..W : Cardinality({i \in 1..Len(lens) : single[i][j] = <<1>>}) = 1

\* the part of C17 on chunk_data: every sample is in exactly one place of one chunk
EverySampleChunkedOnce ==
    LET ch == fnRet[1].chunked
    IN  /\ ch.exc = "none"
        /\ \A j \in 1..Len(fnArg.data) :
              Cardinality({p \in UNION {{<<i, st, c, k>> : st \in 1..fnArg.num_steps,
                                           c \in 1..fnArg.num_cycles, k \in 1..fnArg.lens[i]} :
                                         i \in 1..Len(fnArg.lens)} :
                             ch.val[p[1]][p[2]][p[3]][p[4]] = <<j>>}) = 1

\* C17: the single wave masks partition one wave cycle, the full wave masks repeat them
\* num_cycles * num_steps times, and chunk_data puts every sample of the data into
\* exactly one setpoint chunk.
C17_MasksPartition == fnRet # None => (MasksPartition /\ EverySampleChunkedOnce)

(***************************************************************************)
(* tests/helpers.py: Dirs and change_to_test_dir                           *)
(***************************************************************************)
\* Dirs.set_test_dirs(), lines 16-22
set_test_dirs(c) == [d \in DirNamesCfg |-> "fixtures"]

\* Dirs.reset_dirs(), lines 24-30
reset_dirs(c, saved) == [d \in DirNamesCfg |-> saved[d]]

\* wrapper, lines 37-41: an exception of func leaves it before Dirs.reset_dirs()
OnRaise(c, saved) == c

\* the program sets a directory of src.config while no wrapped function runs
SetCfg(d, v) ==
    /\ wpc # "running"
    /\ cfg' = [cfg EXCEPT ![d] = v]
    /\ wpc' = "idle"
    /\ UNCHANGED <<Dirs, cfgBefore, restD>>

\* the wrapper is called: Dirs.set_test_dirs(), then func starts
WrapperEnter ==
    /\ wpc # "running"
    /\ cfgBefore' = cfg
    /\ cfg' = set_test_dirs(cfg)
    /\ wpc' = "running"
    /\ UNCHANGED <<Dirs, restD>>

\* func returns: Dirs.reset_dirs(), return value
WrapperReturn ==
    /\ wpc = "running"
    /\ cfg' = reset_dirs(cfg, Dirs)
    /\ wpc' = "returned"
    /\ UNCHANGED <<Dirs, cfgBefore, restD>>

\* func raises: the exception goes through the wrapper
WrapperRaise ==
    /\ wpc = "running"
    /\ cfg' = OnRaise(cfg, Dirs)
    /\ wpc' = "raised"
    /\ UNCHANGED <<Dirs, cfgBefore, restD>>

SetCfgStep == \E d \in DirNamesCfg, v \in DirVals : SetCfg(d, v)

NextDirs == SetCfgStep \/ WrapperEnter \/ WrapperReturn \/ WrapperRaise

SpecDirs == InitEmpty /\ [][NextDirs]_vars

\* C18: once a function wrapped by change_to_test_dir has finished, by returning or by
\* raising, cfg.ddir, cfg.pickledata, cfg.plotdir and cfg.dfdir are what they were
\* before the call.
C18_DirsRestored == wpc \in {"returned", "raised"} => cfg = cfgBefore

=============================================================================
